---- MODULE Spec2Model ----
(***************************************************************************)
(* A model of the editors of Tortoaster/toprs (crate `top`):               *)
(*   - FromStrEditor  (src/top/src/editor/convert.rs)                      *)
(*   - ChoiceEditor   (src/top/src/editor/choice.rs)                       *)
(*   - VecEditor, Row (src/top/src/editor/container.rs)                    *)
(* Each editor is modelled as a record and each method as an operator     *)
(* from the receiver (and arguments) to the receiver after the call and    *)
(* the value returned.  The actions apply the methods to the state and     *)
(* record the call (op, ev), what it returned (fb) and the receiver before *)
(* the call (pre), so that the contract of a call is a state predicate.    *)
(*                                                                         *)
(* Strings are sequences of one-character strings.  The type parameter T  *)
(* of FromStrEditor<T> is instantiated to u8.                              *)
(***************************************************************************)
EXTENDS Integers, Sequences, FiniteSets, TLC

VARIABLES
    gen,      \* Generator: the last identifier issued
    fs,       \* a FromStrEditor<u8>
    ch,       \* a ChoiceEditor
    vec,      \* a VecEditor<FromStrEditor<u8>>
    op,       \* the last call made
    ev,       \* the event (or argument) of the last call
    fb,       \* what the last call returned (Option<Feedback>)
    pre,      \* the receiver before the last call
    hist,     \* history of the identifiers of a VecEditor (see HistInit)
    subject,  \* what this run drives: "FromStr", "Choice", "Vec", "Option",
              \* "Parallel", "View", "Interact" or "Share"
    opt,      \* an OptionEditor<FromStrEditor<u8>>
    par,      \* a Parallel<T1, T2, F> and its two tasks
    views,    \* the View tasks and the shares they are bound to
    task,     \* an Interact<u8, FromStrEditor<u8>>
    sh        \* a share cell, its writer and the viewers reading it

\* the variables of the editors of container.rs other than VecEditor, of the
\* tasks and of the views
idle == <<opt, par, views, task, sh>>

vars == <<gen, fs, ch, vec, op, ev, fb, pre, hist, subject, idle>>

----------------------------------------------------------------------------
(* Bounds *)

\* identifiers the FromStrEditor / ChoiceEditor specifications may issue
MaxIssue == 2
\* rows a VecEditor may create in one run (initial items and add presses)
MaxRows == 3
\* items VecEditor::start is given at most
MaxInit == 1
\* options of a ChoiceEditor at most
MaxOptions == 3

----------------------------------------------------------------------------
(* Identifiers, events, feedback *)

\* Id::INVALID
INVALID == 0

\* Generator::next: a fresh identifier, distinct from all issued before.
GenNext(g) == g + 1

Update(id, value) == [type |-> "Update", id |-> id, value |-> value]
Press(id) == [type |-> "Press", id |-> id]

\* Option<Feedback>::None
NoFeedback == [type |-> "None"]
FbValid(id) == [type |-> "Valid", id |-> id]
FbInvalid(id) == [type |-> "Invalid", id |-> id]
FbAppend(id, html) == [type |-> "Append", id |-> id, html |-> html]
FbRemove(id) == [type |-> "Remove", id |-> id]

\* Result<T, EditorError>
Ok(v) == [ok |-> TRUE, v |-> v]
Err == [ok |-> FALSE, err |-> "Invalid"]

NoCall == [type |-> "None"]

----------------------------------------------------------------------------
(* str::parse for the unsigned integer types: an optional "+", then one or *)
(* more decimal digits, failing on any other character, on the empty       *)
(* string, on a sign alone and on overflow of the type.                    *)

Digits == <<"0", "1", "2", "3", "4", "5", "6", "7", "8", "9">>

IsDigit(c) == \E d \in 1..10 : Digits[d] = c

DigitValue(c) == (CHOOSE d \in 1..10 : Digits[d] = c) - 1

\* -1 stands for Err(ParseIntError)
RECURSIVE ParseDigits(_, _, _, _)
ParseDigits(s, i, acc, max) ==
    IF i > Len(s) THEN acc
    ELSE IF ~IsDigit(s[i]) THEN -1
    ELSE LET n == acc * 10 + DigitValue(s[i])
         IN  IF n > max THEN -1 ELSE ParseDigits(s, i + 1, n, max)

ParseUnsigned(s, max) ==
    IF Len(s) = 0 THEN -1
    ELSE IF s[1] \in {"+", "-"} /\ Len(s) = 1 THEN -1
    ELSE IF s[1] = "+" THEN ParseDigits(s, 2, 0, max)
    ELSE ParseDigits(s, 1, 0, max)

\* u8::MAX
U8Max == 2^8 - 1

\* <u8 as FromStr>::from_str
ParseU8(s) == ParseUnsigned(s, U8Max)

\* <usize as FromStr>::from_str; usize::MAX is beyond the strings of the
\* events, and is capped here at the largest integer TLC represents.
ParseUsize(s) == ParseUnsigned(s, 2147483647)

----------------------------------------------------------------------------
(* FromStrEditor<u8>, convert.rs *)

\* FromStrEditor::new: "".parse() fails for u8
FromStrEditor_new == [id |-> INVALID, value |-> Err]

\* FromStrEditor::component: the identifier of the component is the next
\* one of the generator; returns the editor and the generator after the call
FromStrEditor_component(e, g) ==
    [editor |-> [e EXCEPT !.id = GenNext(g)], gen |-> GenNext(g)]

FromStrEditor_on_event_keep(e, event) ==
    IF event.type = "Update" /\ event.id = e.id
    THEN LET p == ParseU8(event.value)
         IN  IF p >= 0
             THEN [editor |-> [e EXCEPT !.value = Ok(p)], fb |-> FbValid(event.id)]
             ELSE [editor |-> e, fb |-> FbInvalid(event.id)]
    ELSE [editor |-> e, fb |-> NoFeedback]

FromStrEditor_on_event_novalue(e, event) ==
    IF event.type = "Update" /\ event.id = e.id
    THEN IF ParseU8(event.value) >= 0
         THEN [editor |-> e, fb |-> FbValid(event.id)]
         ELSE [editor |-> [e EXCEPT !.value = Err], fb |-> FbInvalid(event.id)]
    ELSE [editor |-> e, fb |-> NoFeedback]

FromStrEditor_on_event_any(e, event) ==
    IF event.type = "Update"
    THEN LET p == ParseU8(event.value)
         IN  IF p >= 0
             THEN [editor |-> [e EXCEPT !.value = Ok(p)], fb |-> FbValid(event.id)]
             ELSE [editor |-> [e EXCEPT !.value = Err], fb |-> FbInvalid(event.id)]
    ELSE [editor |-> e, fb |-> NoFeedback]

\* FromStrEditor::on_event
FromStrEditor_on_event(e, event) ==
    IF event.type = "Update"
    THEN IF event.id = e.id
         THEN LET p == ParseU8(event.value)
              IN  IF p >= 0
                  THEN [editor |-> [e EXCEPT !.value = Ok(p)],
                        fb |-> FbValid(event.id)]
                  ELSE [editor |-> [e EXCEPT !.value = Err],
                        fb |-> FbInvalid(event.id)]
         ELSE [editor |-> e, fb |-> NoFeedback]
    ELSE [editor |-> e, fb |-> NoFeedback]

\* FromStrEditor::read
FromStrEditor_read(e) == e.value

FromStrEditor_write_if_valid(e, value) ==
    IF e.value.ok THEN [e EXCEPT !.value = Ok(value)] ELSE e

\* FromStrEditor::write
FromStrEditor_write(e, value) == [e EXCEPT !.value = Ok(value)]

----------------------------------------------------------------------------
(* ChoiceEditor<V>, choice.rs.  A viewer is modelled by the value it shows *)
(* (V::start(option) keeps the option, viewer.read() returns it).          *)

\* Option<usize>
None == [some |-> FALSE]
Some(v) == [some |-> TRUE, v |-> v]

\* ChoiceEditor::new
ChoiceEditor_new(options) == [id |-> INVALID, options |-> options, choice |-> None]

\* ChoiceEditor::component: every option's component is created, then the
\* radio group's, whose identifier becomes the editor's
ChoiceEditor_component(c, g) ==
    LET last == g + Len(c.options)
    IN  [editor |-> [c EXCEPT !.id = GenNext(last)], gen |-> GenNext(last)]

ChoiceEditor_on_event_any(c, event) ==
    IF event.type = "Update"
    THEN LET p == ParseUsize(event.value)
         IN  IF p >= 0
             THEN [editor |-> [c EXCEPT !.choice = Some(p)], fb |-> FbValid(event.id)]
             ELSE [editor |-> c, fb |-> FbInvalid(event.id)]
    ELSE [editor |-> c, fb |-> NoFeedback]

\* ChoiceEditor::on_event
ChoiceEditor_on_event(c, event) ==
    IF event.type = "Update" /\ c.id = event.id
    THEN LET p == ParseUsize(event.value)
         IN  IF p >= 0
             THEN [editor |-> [c EXCEPT !.choice = Some(p)], fb |-> FbValid(event.id)]
             ELSE [editor |-> c, fb |-> FbInvalid(event.id)]
    ELSE [editor |-> c, fb |-> NoFeedback]

ChoiceEditor_read_one_based(c) ==
    IF ~c.choice.some THEN Err
    ELSE IF c.choice.v >= 1 /\ c.choice.v <= Len(c.options)
         THEN Ok(c.options[c.choice.v])
         ELSE Err

\* ChoiceEditor::read: options.get(index) is the option at the zero-based index
ChoiceEditor_read(c) ==
    IF ~c.choice.some THEN Err
    ELSE IF c.choice.v < Len(c.options)
         THEN Ok(c.options[c.choice.v + 1])
         ELSE Err

\* ChoiceEditor::write
ChoiceEditor_write(c, value) == [c EXCEPT !.choice = Some(value)]

----------------------------------------------------------------------------
(* VecEditor<E> and Row, container.rs, with E = FromStrEditor<u8>.         *)
(* container.rs is written against Editor::start(value, gen), finish() and *)
(* AsHtml, which convert.rs does not implement; they are modelled for the  *)
(* child editor by Editor_start, Editor_finish and Editor_as_html.         *)

\* Editor::start(value, gen) of the child: allocates the identifier of the
\* element the editor owns and primes the state from `value` if provided
Editor_start(e, value, g) ==
    [editor |-> [id |-> GenNext(g),
                 value |-> IF value.some THEN Ok(value.v) ELSE e.value],
     gen |-> GenNext(g)]

\* Editor::finish of the child
Editor_finish(e) == FromStrEditor_read(e)

\* AsHtml::as_html of the child: the field carrying the editor's identifier
Editor_as_html(e) == [tag |-> "input", id |-> e.id, value |-> e.value]

Row_new_shared(g) ==
    [row |-> [id |-> GenNext(g), sub_id |-> GenNext(g)], gen |-> GenNext(g)]

\* Row::new
Row_new(g) ==
    [row |-> [id |-> GenNext(g), sub_id |-> GenNext(GenNext(g))],
     gen |-> GenNext(GenNext(g))]

\* Row::as_html: a Div (given no id) laid out as a row, holding the editor
\* and the minus button, which carries sub_id
Row_as_html(row, editor) ==
    [tag |-> "div", layout |-> "Row",
     children |-> <<Editor_as_html(editor),
                    [tag |-> "button", id |-> row.sub_id, icon |-> "Minus"]>>]

\* Row::add_button
Row_add_button(id) == [tag |-> "button", id |-> id, icon |-> "Plus"]

\* VecEditor::new
VecEditor_new(editor) ==
    [group_id |-> INVALID, add_id |-> INVALID, choices |-> <<>>,
     editors |-> <<>>, template |-> editor]

\* the map of VecEditor::start over the inputs: a clone of the template is
\* started with each input, in order
RECURSIVE StartEditors(_, _, _, _)
StartEditors(template, inputs, i, acc) ==
    IF i > Len(inputs) THEN acc
    ELSE LET s == Editor_start(template, Some(inputs[i]), acc.gen)
         IN  StartEditors(template, inputs, i + 1,
                          [editors |-> Append(acc.editors, s.editor), gen |-> s.gen])

\* the map of VecEditor::start over the editors: a new row for each
RECURSIVE StartRows(_, _, _)
StartRows(n, i, acc) ==
    IF i > n THEN acc
    ELSE LET r == Row_new(acc.gen)
         IN  StartRows(n, i + 1, [rows |-> Append(acc.rows, r.row), gen |-> r.gen])

\* VecEditor::start; `value` is the Option<Vec<Input>>
VecEditor_start(v, value, g) ==
    LET group == GenNext(g)
        add == GenNext(group)
        inputs == IF value.some THEN value.v ELSE <<>>
        es == StartEditors(v.template, inputs, 1, [editors |-> <<>>, gen |-> add])
        rs == StartRows(Len(es.editors), 1, [rows |-> <<>>, gen |-> es.gen])
    IN  [editor |-> [v EXCEPT !.group_id = group, !.add_id = add,
                              !.editors = es.editors, !.choices = rs.rows],
         gen |-> rs.gen]

\* Vec::remove(index), index zero-based, in range
RemoveAt(s, index) ==
    [j \in 1..(Len(s) - 1) |-> IF j <= index THEN s[j] ELSE s[j + 1]]

\* Iterator::position over the rows: the zero-based index of the first row
\* whose sub_id is `id`
RowPosition(rows, id) ==
    (CHOOSE j \in 1..Len(rows) :
        /\ rows[j].sub_id = id
        /\ \A k \in 1..(j - 1) : rows[k].sub_id # id) - 1

RouteToEditors_unstored(editors, i, event) ==
    LET claim == {j \in i..Len(editors) :
                     FromStrEditor_on_event(editors[j], event).fb # NoFeedback}
    IN  IF claim = {} THEN [editors |-> editors, fb |-> NoFeedback]
        ELSE [editors |-> editors,
              fb |-> FromStrEditor_on_event(
                         editors[CHOOSE j \in claim : \A k \in claim : j <= k],
                         event).fb]

\* the find_map of VecEditor::on_event over the editors: each is handed the
\* event, in order, up to and including the first that returns feedback
RECURSIVE RouteToEditors(_, _, _)
RouteToEditors(editors, i, event) ==
    IF i > Len(editors) THEN [editors |-> editors, fb |-> NoFeedback]
    ELSE LET r == FromStrEditor_on_event(editors[i], event)
             after == [editors EXCEPT ![i] = r.editor]
         IN  IF r.fb # NoFeedback
             THEN [editors |-> after, fb |-> r.fb]
             ELSE RouteToEditors(after, i + 1, event)

VecEditor_remove_first(v, index) ==
    [v EXCEPT !.choices = RemoveAt(v.choices, index),
              !.editors = RemoveAt(v.editors, 0)]

VecEditor_remove_row_only(v, index) ==
    [v EXCEPT !.choices = RemoveAt(v.choices, index)]

VecEditor_remove_last_row(v, index) ==
    [v EXCEPT !.choices = RemoveAt(v.choices, Len(v.choices) - 1),
              !.editors = RemoveAt(v.editors, Len(v.editors) - 1)]

\* the removal of VecEditor::on_event: choices.remove(index) and
\* editors.remove(index)
VecEditor_remove(v, index) ==
    [v EXCEPT !.choices = RemoveAt(v.choices, index),
              !.editors = RemoveAt(v.editors, index)]

VecEditor_add_reuse(v, event, g) ==
    LET s == Editor_start(v.template, None, g)
        row == IF Len(v.choices) > 0 THEN v.choices[Len(v.choices)]
               ELSE Row_new(s.gen).row
    IN  [editor |-> [v EXCEPT !.editors = Append(v.editors, s.editor),
                              !.choices = Append(v.choices, row)],
         fb |-> FbAppend(v.group_id, Row_as_html(row, s.editor)),
         gen |-> s.gen, panicked |-> FALSE]

\* the "add a new row" arm of VecEditor::on_event
VecEditor_add(v, event, g) ==
    LET s == Editor_start(v.template, None, g)
        r == Row_new(s.gen)
        html == Row_as_html(r.row, s.editor)
    IN  [editor |-> [v EXCEPT !.editors = Append(v.editors, s.editor),
                              !.choices = Append(v.choices, r.row)],
         fb |-> FbAppend(v.group_id, html),
         gen |-> r.gen, panicked |-> FALSE]

\* VecEditor::on_event; editors.remove(index) panics when index is out of
\* range
VecEditor_on_event(v, event, g) ==
    IF event.type = "Press" /\ event.id = v.add_id
    THEN VecEditor_add(v, event, g)
    ELSE IF event.type = "Press"
            /\ \E j \in 1..Len(v.choices) : v.choices[j].sub_id = event.id
    THEN LET index == RowPosition(v.choices, event.id)
             row == v.choices[index + 1]
         IN  IF index >= Len(v.editors)
             THEN [editor |-> [v EXCEPT !.choices = RemoveAt(v.choices, index)],
                   fb |-> NoFeedback, gen |-> g, panicked |-> TRUE]
             ELSE [editor |-> VecEditor_remove(v, index),
                   fb |-> FbRemove(row.id), gen |-> g, panicked |-> FALSE]
    ELSE LET r == RouteToEditors(v.editors, 1, event)
         IN  [editor |-> [v EXCEPT !.editors = r.editors],
              fb |-> r.fb, gen |-> g, panicked |-> FALSE]

\* VecEditor::as_html: a div holding the group (a div with group_id whose
\* children are the rows) and the add button
VecEditor_as_html(v) ==
    [tag |-> "div",
     children |->
        <<[tag |-> "div", id |-> v.group_id,
           children |-> [j \in (1..Len(v.editors)) \cap (1..Len(v.choices)) |->
                            Row_as_html(v.choices[j], v.editors[j])]],
          Row_add_button(v.add_id)>>]

\* the identifiers carried by the elements of a piece of markup
RECURSIVE HtmlIds(_)
HtmlIds(h) ==
    (IF "id" \in DOMAIN h THEN {h.id} ELSE {})
        \cup (IF "children" \in DOMAIN h
              THEN UNION {HtmlIds(h.children[j]) : j \in 1..Len(h.children)}
              ELSE {})

\* the positions of the editors whose finish fails
Failing(editors) == {j \in 1..Len(editors) : ~Editor_finish(editors[j]).ok}

\* the smallest of a non-empty set of positions
First(S) == CHOOSE j \in S : \A k \in S : j <= k

\* the items of s at the positions (a set), in order
RECURSIVE Pick(_, _, _)
Pick(s, keep, i) ==
    IF i > Len(s) THEN <<>>
    ELSE (IF i \in keep THEN <<s[i]>> ELSE <<>>) \o Pick(s, keep, i + 1)

VecEditor_finish_partial(v) ==
    LET good == (1..Len(v.editors)) \ Failing(v.editors)
        kept == Pick(v.editors, good, 1)
    IN  Ok([j \in 1..Len(kept) |-> Editor_finish(kept[j]).v])

\* VecEditor::finish: the outputs of the editors in order; collect stops at
\* the first error and returns it
VecEditor_finish(v) ==
    IF Failing(v.editors) # {}
    THEN Editor_finish(v.editors[First(Failing(v.editors))])
    ELSE Ok([j \in 1..Len(v.editors) |-> Editor_finish(v.editors[j]).v])

----------------------------------------------------------------------------
(* OptionEditor<E>, container.rs, with E = FromStrEditor<u8> *)

FbReplace(id, html) == [type |-> "Replace", id |-> id, html |-> html]

\* OptionEditor::new
OptionEditor_new(editor) ==
    [row |-> [id |-> INVALID, sub_id |-> INVALID], add_id |-> INVALID,
     editor |-> editor, enabled |-> FALSE]

\* OptionEditor::start; `value` is the Option<Option<Input>>
OptionEditor_start(o, value, g) ==
    LET r == Row_new(g)
        add == GenNext(r.gen)
        flat == IF value.some THEN value.v ELSE None
        s == Editor_start(o.editor, flat, add)
    IN  [editor |-> [row |-> r.row, add_id |-> add, editor |-> s.editor,
                     enabled |-> value.some],
         gen |-> s.gen]

OptionEditor_on_event_toggle(o, event, g) ==
    IF event.type = "Press" /\ event.id = o.add_id
    THEN [editor |-> [o EXCEPT !.enabled = ~o.enabled],
          fb |-> FbReplace(o.add_id, Row_as_html(o.row, o.editor)), gen |-> g]
    ELSE IF event.type = "Press" /\ event.id = o.row.sub_id /\ o.enabled
    THEN [editor |-> [o EXCEPT !.enabled = FALSE],
          fb |-> FbReplace(o.row.id, Row_add_button(o.add_id)), gen |-> g]
    ELSE IF o.enabled
         THEN LET r == FromStrEditor_on_event(o.editor, event)
              IN  [editor |-> [o EXCEPT !.editor = r.editor], fb |-> r.fb, gen |-> g]
         ELSE [editor |-> o, fb |-> NoFeedback, gen |-> g]

\* OptionEditor::on_event
OptionEditor_on_event(o, event, g) ==
    IF event.type = "Press" /\ event.id = o.add_id /\ ~o.enabled
    THEN [editor |-> [o EXCEPT !.enabled = TRUE],
          fb |-> FbReplace(o.add_id, Row_as_html(o.row, o.editor)), gen |-> g]
    ELSE IF event.type = "Press" /\ event.id = o.row.sub_id /\ o.enabled
    THEN [editor |-> [o EXCEPT !.enabled = FALSE],
          fb |-> FbReplace(o.row.id, Row_add_button(o.add_id)), gen |-> g]
    ELSE IF o.enabled
         THEN LET r == FromStrEditor_on_event(o.editor, event)
              IN  [editor |-> [o EXCEPT !.editor = r.editor], fb |-> r.fb, gen |-> g]
         ELSE [editor |-> o, fb |-> NoFeedback, gen |-> g]

\* OptionEditor::as_html: the row when enabled, the add button otherwise
OptionEditor_as_html(o) ==
    IF o.enabled THEN Row_as_html(o.row, o.editor) ELSE Row_add_button(o.add_id)

OptionEditor_finish_strict(o) ==
    LET r == Editor_finish(o.editor)
    IN  IF ~r.ok THEN Err
        ELSE IF o.enabled THEN Ok(Some(r.v)) ELSE Ok(None)

\* OptionEditor::finish: the child's error is passed on only when enabled
OptionEditor_finish(o) ==
    IF o.enabled
    THEN LET r == Editor_finish(o.editor)
         IN  IF r.ok THEN Ok(Some(r.v)) ELSE Err
    ELSE Ok(None)

----------------------------------------------------------------------------
(* TaskValue and Feedback of the task layer *)

Empty == [tag |-> "Empty"]
Unstable(v) == [tag |-> "Unstable", v |-> v]
Stable(v) == [tag |-> "Stable", v |-> v]

\* TaskValue::and: Stable iff both are Stable, Empty if either is Empty,
\* Unstable otherwise; the value is the pair
TaskValue_and(a, b) ==
    IF a.tag = "Empty" \/ b.tag = "Empty" THEN Empty
    ELSE IF a.tag = "Stable" /\ b.tag = "Stable" THEN Stable(<<a.v, b.v>>)
    ELSE Unstable(<<a.v, b.v>>)

\* TaskValue::or: the left operand unless it is Empty, else the right
TaskValue_or(a, b) == IF a.tag # "Empty" THEN a ELSE b

\* Err(TaskError::...) and the errors passed on by `?`
TaskErr(e) == [ok |-> FALSE, err |-> e]

\* Id::ROOT, the reserved identifier of the document root
ROOT == INVALID

\* Feedback of a task: the changes in the order they are to be applied
Feedback_new == <<>>
Feedback_from(change) == <<change>>

\* two feedbacks are incompatible when both replace the same element
Incompatible(a, b) ==
    \E i \in 1..Len(a), j \in 1..Len(b) :
        /\ a[i].type = "Replace" /\ b[j].type = "Replace"
        /\ a[i].id = b[j].id

\* the write path of a share: the cell of identity `id` takes the value
Share_write(shares, id, value) == [shares EXCEPT ![id] = value]

\* Feedback::merged_with: the concatenation, or an error
Feedback_merged_with(a, b) ==
    IF Incompatible(a, b) THEN TaskErr("Merge") ELSE Ok(a \o b)

----------------------------------------------------------------------------
(* View, view/mod.rs: a task showing the value of a share *)

\* InnerView: its own identifier, the share it is bound to, its colour
InnerView(id, share, color) == [id |-> id, share |-> share, color |-> color]

\* View::new_shared: `uuid` is the identifier Uuid::new_v4() draws
View_new_shared(share, uuid) == InnerView(uuid, share, "default")

\* InnerView::share
View_share(view) == view.share

\* InnerView::value: a copy of the share's value
View_value(view, shares) == Ok(shares[view.share])

\* InnerView::on_event: no feedback, whatever the event
View_on_event(view, event) == Ok(Feedback_new)

\* InnerView::to_html: a div with the view's identifier showing the value
\* read from the share
View_to_html(view, shares) ==
    [tag |-> "div", id |-> view.id, color |-> view.color,
     value |-> shares[view.share]]

View_refresh_always(view, id, shares) ==
    Feedback_from(FbReplace(view.id, View_to_html(view, shares)))

\* InnerView::refresh
View_refresh(view, id, shares) ==
    IF view.share = id
    THEN Feedback_from(FbReplace(view.id, View_to_html(view, shares)))
    ELSE Feedback_new

----------------------------------------------------------------------------
(* Interact<I, E>, interact.rs, with E = FromStrEditor<u8>.  The feedback  *)
(* it sends through the context is the feedback its on_event hands to the  *)
(* enclosing task; a failed send is the error it returns.                  *)

Interact_new(input) ==
    [kind |-> "Interact", input |-> input, editor |-> FromStrEditor_new]

\* Interact::start; `sent` is whether ctx.feedback.send succeeds
Interact_start(t, g, sent) ==
    LET written == IF t.input.some
                   THEN FromStrEditor_write(t.editor, t.input.v)
                   ELSE t.editor
        c == FromStrEditor_component(written, g)
    IN  [task |-> [t EXCEPT !.input = None, !.editor = c.editor],
         gen |-> c.gen,
         res |-> IF sent
                 THEN Ok(Feedback_from(FbReplace(ROOT, Editor_as_html(c.editor))))
                 ELSE TaskErr("Send")]

Interact_value_stable(t) ==
    LET r == FromStrEditor_read(t.editor)
    IN  IF r.ok THEN Stable(r.v) ELSE Empty

\* the value Interact::on_event returns: Unstable of what the editor reads,
\* Empty when the editor has no valid value
Interact_value(t) ==
    LET r == FromStrEditor_read(t.editor)
    IN  IF r.ok THEN Unstable(r.v) ELSE Empty

\* Interact::finish
Interact_finish(t) ==
    LET r == FromStrEditor_read(t.editor)
    IN  IF r.ok THEN Stable(r.v) ELSE Empty

Interact_on_event_strict(t, event, sent) ==
    LET r == FromStrEditor_on_event(t.editor, event)
        after == [t EXCEPT !.editor = r.editor]
    IN  IF r.fb # NoFeedback
        THEN IF sent /\ r.fb.type # "Invalid"
             THEN [task |-> after, res |-> Ok(Feedback_from(r.fb))]
             ELSE [task |-> after, res |-> TaskErr("Send")]
        ELSE [task |-> after, res |-> Ok(Feedback_new)]

\* Interact::on_event; `sent` is whether ctx.feedback.send succeeds
Interact_on_event(t, event, sent) ==
    LET r == FromStrEditor_on_event(t.editor, event)
        after == [t EXCEPT !.editor = r.editor]
    IN  IF r.fb # NoFeedback
        THEN IF sent
             THEN [task |-> after, res |-> Ok(Feedback_from(r.fb))]
             ELSE [task |-> after, res |-> TaskErr("Send")]
        ELSE [task |-> after, res |-> Ok(Feedback_new)]

------------------------------------------------------------\* what Interact::on_event returns to its caller: the error of a failed
\* send, or else the value read from the editor after the event
Interact_on_event_result(t, event, sent) ==
    LET r == Interact_on_event(t, event, sent)
    IN  IF r.res.ok THEN Ok(Interact_value(r.task)) ELSE r.res

----------------
(* Parallel<T1, T2, F>, parallel.rs.  A branch is an Interact, a View or  *)
(* any other implementation of Task; of the last only what Parallel uses  *)
(* is kept: the result of its on_event, its value and its share.          *)

\* a branch that is some other Task: the identifier it owns, the result of
\* its value() and its share
AnyTask(id, value, share) ==
    [kind |-> "Task", id |-> id, value |-> value, share |-> share]

ViewTask(view) == [kind |-> "View", view |-> view]

\* what an on_event of a branch that is some other Task may return
AnyOutcomes == {"Empty", "Valid", "Replace", "Fail"}

AnyTask_on_event(t, event, outcome) ==
    CASE outcome = "Empty" -> Ok(Feedback_new)
      [] outcome = "Valid" -> Ok(Feedback_from(FbValid(t.id)))
      [] outcome = "Replace" -> Ok(Feedback_from(FbReplace(ROOT, t.id)))
      [] OTHER -> TaskErr("Task")

\* tasks.N.on_event(event): the branch after the call and what it returned;
\* `outcome` is what the branch does not decide by itself
Task_on_event(t, event, outcome) ==
    CASE t.kind = "Interact" -> Interact_on_event(t, event, outcome # "Fail")
      [] t.kind = "View" -> [task |-> t, res |-> View_on_event(t.view, event)]
      [] OTHER -> [task |-> t, res |-> AnyTask_on_event(t, event, outcome)]

\* tasks.N.value()
Task_value(t, shares) ==
    CASE t.kind = "Interact" -> Ok(Interact_value(t))
      [] t.kind = "View" -> View_value(t.view, shares)
      [] OTHER -> t.value

\* tasks.N.share(); an Interact has nothing to share
Unit == [unit |-> TRUE]
\* a handle on the share of identity `id`
ShareRef(id) == [share |-> id]
Task_share(t) ==
    CASE t.kind = "Interact" -> Unit
      [] t.kind = "View" -> ShareRef(View_share(t.view))
      [] OTHER -> ShareRef(t.share)

\* Parallel { tasks: (left, right), combine: policy }; log lists, for the
\* last on_event, the branches the event was handed to and what each returned
Parallel(left, right, policy) ==
    [policy |-> policy, left |-> left, right |-> right, log |-> <<>>]

Delivery(side, res) == [side |-> side, res |-> res]

Parallel_on_event_right_first(p, event, ol, or) ==
    LET a == Task_on_event(p.left, event, ol)
        b == Task_on_event(p.right, event, or)
        m == IF a.res.ok /\ b.res.ok
             THEN Feedback_merged_with(b.res.v, a.res.v) ELSE TaskErr("Task")
    IN  IF ~a.res.ok
        THEN [par |-> [p EXCEPT !.left = a.task,
                                !.log = <<Delivery("left", a.res)>>],
              res |-> a.res]
        ELSE [par |-> [p EXCEPT !.left = a.task, !.right = b.task,
                                !.log = <<Delivery("left", a.res),
                                          Delivery("right", b.res)>>],
              res |-> IF ~b.res.ok THEN b.res
                      ELSE IF m.ok THEN m ELSE TaskErr("Feedback")]

\* Parallel::on_event, the same in the four impls: the left branch, then
\* (unless `?` returned its error) the right branch, then the merge
Parallel_on_event(p, event, ol, or) ==
    LET a == Task_on_event(p.left, event, ol)
        b == Task_on_event(p.right, event, or)
        m == IF a.res.ok /\ b.res.ok
             THEN Feedback_merged_with(a.res.v, b.res.v) ELSE TaskErr("Task")
    IN  IF ~a.res.ok
        THEN [par |-> [p EXCEPT !.left = a.task,
                                !.log = <<Delivery("left", a.res)>>],
              res |-> a.res]
        ELSE [par |-> [p EXCEPT !.left = a.task, !.right = b.task,
                                !.log = <<Delivery("left", a.res),
                                          Delivery("right", b.res)>>],
              res |-> IF ~b.res.ok THEN b.res
                      ELSE IF m.ok THEN m ELSE TaskErr("Feedback")]

Parallel_Both_value_swapped(p, shares) ==
    LET a == Task_value(p.left, shares)
        b == Task_value(p.right, shares)
    IN  IF ~a.ok THEN a
        ELSE IF ~b.ok THEN b
        ELSE Ok(TaskValue_and(b.v, a.v))

\* Parallel<T1, T2, Both>::value
Parallel_Both_value(p, shares) ==
    LET a == Task_value(p.left, shares)
        b == Task_value(p.right, shares)
    IN  IF ~a.ok THEN a
        ELSE IF ~b.ok THEN b
        ELSE Ok(TaskValue_and(a.v, b.v))

\* Parallel<T1, T2, Both>::share
Parallel_Both_share(p) == <<Task_share(p.left), Task_share(p.right)>>

Parallel_Either_value_swapped(p, shares) ==
    LET a == Task_value(p.left, shares)
        b == Task_value(p.right, shares)
    IN  IF ~a.ok THEN a
        ELSE IF ~b.ok THEN b
        ELSE Ok(TaskValue_or(b.v, a.v))

\* Parallel<T1, T2, Either>::value
Parallel_Either_value(p, shares) ==
    LET a == Task_value(p.left, shares)
        b == Task_value(p.right, shares)
    IN  IF ~a.ok THEN a
        ELSE IF ~b.ok THEN b
        ELSE Ok(TaskValue_or(a.v, b.v))

\* Parallel<T1, T2, Either>::share
Parallel_Either_share(p) == Unit

\* Parallel<T1, T2, Left>::value and ::share
Parallel_Left_value(p, shares) == Task_value(p.left, shares)
Parallel_Left_share(p) == Task_share(p.left)

\* Parallel<T1, T2, Right>::value and ::share
Parallel_Right_value(p, shares) == Task_value(p.right, shares)
Parallel_Right_share(p) == Task_share(p.right)

\* the impl the policy marker selects
Parallel_value(p, shares) ==
    CASE p.policy = "Both" -> Parallel_Both_value(p, shares)
      [] p.policy = "Either" -> Parallel_Either_value(p, shares)
      [] p.policy = "Left" -> Parallel_Left_value(p, shares)
      [] OTHER -> Parallel_Right_value(p, shares)

Parallel_share(p) ==
    CASE p.policy = "Both" -> Parallel_Both_share(p)
      [] p.policy = "Either" -> Parallel_Either_share(p)
      [] p.policy = "Left" -> Parallel_Left_share(p)
      [] OTHER -> Parallel_Right_share(p)

----------------------------------------------------------------------------
(* Shared<T>: the cell behind a share.  Its value takes two stores to      *)
(* write and two loads to read; read(), clone_value() and the write path   *)
(* wait for the cell's lock.                                               *)

\* a cell holding the value v whole
Share_new(v) == [lock |-> "free", lo |-> v, hi |-> v]

Share_free_always(cell) == TRUE

\* whether an awaited lock of the cell is granted
Share_free(cell) == cell.lock = "free"

Share_lock(cell, who) == [cell EXCEPT !.lock = who]
Share_unlock(cell) == [cell EXCEPT !.lock = "free"]

\* the values of the variables a run does not drive
OptionIdle == OptionEditor_new(FromStrEditor_new)
ParIdle == [policy |-> "None"]
ShareIds == {1, 2}
ViewsIdle == [list |-> <<>>, shares |-> [s \in ShareIds |-> Empty]]

TaskIdle == Interact_new(None)
ShareIdle == [cell |-> Share_new(0)]

RestInit ==
    /\ task = TaskIdle
    /\ sh = ShareIdle

IdleInit ==
    /\ opt = OptionIdle
    /\ par = ParIdle
    /\ views = ViewsIdle
    /\ RestInit

----------------------------------------------------------------------------
(* The FromStrEditor specification *)

\* the strings an Update event carries: empty, a sign alone, digits with and
\* without a sign or leading zeros, a letter, and both sides of u8::MAX
FsStrings ==
    {<<>>, <<"+">>, <<"9">>, <<"+", "9">>, <<"-", "9">>, <<"a">>, <<"9", "a">>,
     <<"0", "0", "7">>, <<"2", "5", "5">>, <<"2", "5", "6">>}
FsIds == 0..MaxIssue
FsValues == {7, U8Max}
FsEvents == {Update(i, s) : i \in FsIds, s \in FsStrings} \cup {Press(i) : i \in FsIds}

ChoiceInit == ChoiceEditor_new(<<>>)
VecInit == VecEditor_new(FromStrEditor_new)

\* Every identifier a VecEditor holds: the group, the add button, and each
\* row's container, remove trigger and child editor
VecLiveIds(v) ==
    {v.group_id, v.add_id}
        \cup {v.choices[j].id : j \in 1..Len(v.choices)}
        \cup {v.choices[j].sub_id : j \in 1..Len(v.choices)}
        \cup {v.editors[j].id : j \in 1..Len(v.editors)}

\* The history of a VecEditor: whether start was called and with how many
\* items, the add and remove presses so far, the <<row id, child id>> pairs
\* as they were created, and the identifiers of the rows removed (container,
\* remove trigger, child) so far and before the last call
HistInit ==
    [started |-> FALSE, n |-> 0, adds |-> 0, removes |-> 0, pairs |-> {},
     released |-> {}, releasedBefore |-> {}]

FsInit ==
    /\ gen = INVALID
    /\ fs = FromStrEditor_new
    /\ ch = ChoiceInit
    /\ vec = VecInit
    /\ op = "new"
    /\ ev = NoCall
    /\ fb = NoFeedback
    /\ pre = FromStrEditor_new
    /\ hist = HistInit
    /\ subject = "FromStr"
    /\ IdleInit

FsComponent ==
    /\ subject = "FromStr"
    /\ gen < MaxIssue
    /\ LET r == FromStrEditor_component(fs, gen)
       IN  /\ fs' = r.editor
           /\ gen' = r.gen
    /\ op' = "component"
    /\ ev' = NoCall
    /\ fb' = NoFeedback
    /\ pre' = fs
    /\ UNCHANGED <<ch, vec, hist, subject, idle>>

FsOnEvent ==
    \E event \in FsEvents :
        LET r == FromStrEditor_on_event(fs, event)
        IN  /\ subject = "FromStr"
            /\ fs' = r.editor
            /\ fb' = r.fb
            /\ op' = "on_event"
            /\ ev' = event
            /\ pre' = fs
            /\ UNCHANGED <<gen, ch, vec, hist, subject, idle>>

FsWrite ==
    \E v \in FsValues :
        /\ subject = "FromStr"
        /\ fs' = FromStrEditor_write(fs, v)
        /\ op' = "write"
        /\ ev' = [type |-> "Write", value |-> v]
        /\ fb' = NoFeedback
        /\ pre' = fs
        /\ UNCHANGED <<gen, ch, vec, hist, subject, idle>>

FsNext == FsComponent \/ FsOnEvent \/ FsWrite

SpecFromStr == FsInit /\ [][FsNext]_vars

----------------------------------------------------------------------------
(* The ChoiceEditor specification *)

\* the strings an Update event carries: indices in and out of range of the
\* options, with a sign or a leading zero, and strings that are no index
ChStrings ==
    {<<>>, <<"0">>, <<"1">>, <<"2">>, <<"3">>, <<"+", "1">>, <<"0", "2">>,
     <<"1", "0">>, <<"x">>, <<"-", "1">>}
ChMaxId == MaxIssue + MaxOptions
ChIds == 0..ChMaxId
ChEvents == {Update(i, s) : i \in ChIds, s \in ChStrings} \cup {Press(i) : i \in ChIds}

\* the options shown: the option at zero-based index j is the value 10 * (j + 1)
OptionsOfLen(n) == [j \in 1..n |-> 10 * j]

ChInit ==
    /\ gen = INVALID
    /\ fs = FromStrEditor_new
    /\ \E n \in 0..MaxOptions : ch = ChoiceEditor_new(OptionsOfLen(n))
    /\ vec = VecInit
    /\ op = "new"
    /\ ev = NoCall
    /\ fb = NoFeedback
    /\ pre = ch
    /\ hist = HistInit
    /\ subject = "Choice"
    /\ IdleInit

ChComponent ==
    /\ subject = "Choice"
    /\ gen + Len(ch.options) < ChMaxId
    /\ LET r == ChoiceEditor_component(ch, gen)
       IN  /\ ch' = r.editor
           /\ gen' = r.gen
    /\ op' = "component"
    /\ ev' = NoCall
    /\ fb' = NoFeedback
    /\ pre' = ch
    /\ UNCHANGED <<fs, vec, hist, subject, idle>>

ChOnEvent ==
    \E event \in ChEvents :
        LET r == ChoiceEditor_on_event(ch, event)
        IN  /\ subject = "Choice"
            /\ ch' = r.editor
            /\ fb' = r.fb
            /\ op' = "on_event"
            /\ ev' = event
            /\ pre' = ch
            /\ UNCHANGED <<gen, fs, vec, hist, subject, idle>>

ChWrite ==
    \E v \in 0..MaxOptions :
        /\ subject = "Choice"
        /\ ch' = ChoiceEditor_write(ch, v)
        /\ op' = "write"
        /\ ev' = [type |-> "Write", value |-> v]
        /\ fb' = NoFeedback
        /\ pre' = ch
        /\ UNCHANGED <<gen, fs, vec, hist, subject, idle>>

ChNext == ChComponent \/ ChOnEvent \/ ChWrite

SpecChoice == ChInit /\ [][ChNext]_vars

\* Either editor, for the claims that speak of both
SpecEditors == (FsInit \/ ChInit) /\ [][FsNext \/ ChNext]_vars

----------------------------------------------------------------------------
(* The VecEditor specification *)

\* every identifier a run can issue, and one more that is never issued
VecMaxId == 2 + 3 * MaxRows
VecIds == 0..(VecMaxId + 1)
VecStrings == {<<"9">>, <<"a">>}
VecEvents == {Update(i, s) : i \in VecIds, s \in VecStrings} \cup {Press(i) : i \in VecIds}

\* the items start is given: item j is the value j
InputsOfLen(n) == [j \in 1..n |-> j]
VecStartValues == {None} \cup {Some(InputsOfLen(n)) : n \in 0..MaxInit}

SeqToSet(s) == {s[j] : j \in 1..Len(s)}

IsAddPress(v, event) == event.type = "Press" /\ event.id = v.add_id

IsRemovePress(v, event) ==
    /\ ~IsAddPress(v, event)
    /\ event.type = "Press"
    /\ \E j \in 1..Len(v.choices) : v.choices[j].sub_id = event.id

\* the identifiers of the row whose remove trigger is `id`: its container,
\* its remove trigger and the child editor it was created with
PressedRowIds(v, id, pairs) ==
    LET row == v.choices[RowPosition(v.choices, id) + 1]
    IN  {row.id, row.sub_id} \cup {p[2] : p \in {q \in pairs : q[1] = row.id}}

VecSpecInit ==
    /\ gen = INVALID
    /\ fs = FromStrEditor_new
    /\ ch = ChoiceInit
    /\ vec = VecEditor_new(FromStrEditor_new)
    /\ op = "new"
    /\ ev = NoCall
    /\ fb = NoFeedback
    /\ pre = vec
    /\ hist = HistInit
    /\ subject = "Vec"
    /\ IdleInit

VecStart ==
    \E value \in VecStartValues :
        LET r == VecEditor_start(vec, value, gen)
        IN  /\ subject = "Vec"
            /\ ~hist.started
            /\ vec' = r.editor
            /\ gen' = r.gen
            /\ op' = "start"
            /\ ev' = [type |-> "Start", value |-> value]
            /\ fb' = NoFeedback
            /\ pre' = vec
            /\ hist' = [hist EXCEPT
                          !.started = TRUE,
                          !.n = IF value.some THEN Len(value.v) ELSE 0,
                          !.pairs = {<<r.editor.choices[j].id, r.editor.editors[j].id>> :
                                       j \in (1..Len(r.editor.choices))
                                               \cap (1..Len(r.editor.editors))}]
            /\ UNCHANGED <<fs, ch, subject, idle>>

VecOnEvent ==
    \E event \in VecEvents :
        /\ subject = "Vec"
        /\ hist.started
        /\ op # "panic"
        /\ IsAddPress(vec, event) => hist.n + hist.adds < MaxRows
        /\ LET r == VecEditor_on_event(vec, event, gen)
           IN  /\ vec' = r.editor
               /\ gen' = r.gen
               /\ fb' = r.fb
               /\ op' = IF r.panicked THEN "panic" ELSE "on_event"
        /\ ev' = event
        /\ pre' = vec
        /\ LET newRows == SeqToSet(vec'.choices) \ SeqToSet(vec.choices)
               newEditors == SeqToSet(vec'.editors) \ SeqToSet(vec.editors)
           IN  hist' = [hist EXCEPT
                          !.adds = IF IsAddPress(vec, event) THEN @ + 1 ELSE @,
                          !.removes = IF IsRemovePress(vec, event) THEN @ + 1 ELSE @,
                          !.pairs = IF IsAddPress(vec, event)
                                    THEN @ \cup {<<row.id, e.id>> :
                                                   row \in newRows, e \in newEditors}
                                    ELSE @,
                          !.released = IF IsRemovePress(vec, event)
                                       THEN @ \cup PressedRowIds(vec, event.id, hist.pairs)
                                       ELSE @,
                          !.releasedBefore = hist.released]
        /\ UNCHANGED <<fs, ch, subject, idle>>

\* finish takes &self; fb records what it returned
VecFinish ==
    /\ subject = "Vec"
    /\ hist.started
    /\ op # "panic"
    /\ fb' = VecEditor_finish(vec)
    /\ op' = "finish"
    /\ ev' = NoCall
    /\ pre' = vec
    /\ UNCHANGED <<gen, fs, ch, vec, hist, subject, idle>>

VecNext == VecStart \/ VecOnEvent \/ VecFinish

SpecVec == VecSpecInit /\ [][VecNext]_vars

----------------------------------------------------------------------------
(* The OptionEditor specification *)

\* start issues four identifiers: the row's two, the add button's, the child's
OptMaxId == 4
OptIds == 0..(OptMaxId + 1)
OptStrings == {<<"9">>, <<"a">>, <<"2", "5", "5">>}
OptEvents == {Update(i, s) : i \in OptIds, s \in OptStrings} \cup {Press(i) : i \in OptIds}
\* Option<Option<u8>>
OptStartValues == {None, Some(None), Some(Some(7))}

OptInit ==
    /\ gen = INVALID
    /\ fs = FromStrEditor_new
    /\ ch = ChoiceInit
    /\ vec = VecInit
    /\ opt = OptionEditor_new(FromStrEditor_new)
    /\ par = ParIdle
    /\ views = ViewsIdle
    /\ op = "new"
    /\ ev = NoCall
    /\ fb = NoFeedback
    /\ pre = opt
    /\ hist = HistInit
    /\ subject = "Option"
    /\ RestInit

OptStart ==
    \E value \in OptStartValues :
        LET r == OptionEditor_start(opt, value, gen)
        IN  /\ subject = "Option"
            /\ op = "new"
            /\ opt' = r.editor
            /\ gen' = r.gen
            /\ op' = "start"
            /\ ev' = [type |-> "Start", value |-> value]
            /\ fb' = NoFeedback
            /\ pre' = opt
            /\ UNCHANGED <<fs, ch, vec, hist, subject, par, views, task, sh>>

OptOnEvent ==
    \E event \in OptEvents :
        LET r == OptionEditor_on_event(opt, event, gen)
        IN  /\ subject = "Option"
            /\ op # "new"
            /\ opt' = r.editor
            /\ gen' = r.gen
            /\ fb' = r.fb
            /\ op' = "on_event"
            /\ ev' = event
            /\ pre' = opt
            /\ UNCHANGED <<fs, ch, vec, hist, subject, par, views, task, sh>>

\* finish takes &self; fb records what it returned
OptFinish ==
    /\ subject = "Option"
    /\ op # "new"
    /\ fb' = OptionEditor_finish(opt)
    /\ op' = "finish"
    /\ ev' = NoCall
    /\ pre' = opt
    /\ UNCHANGED <<gen, fs, ch, vec, opt, hist, subject, par, views, task, sh>>

OptNext == OptStart \/ OptOnEvent \/ OptFinish

SpecOption == OptInit /\ [][OptNext]_vars

\* the list editor and the optional editor
SpecContainers == (VecSpecInit \/ OptInit) /\ [][VecNext \/ OptNext]_vars

----------------------------------------------------------------------------
(* The Parallel specification *)

MaxCalls == 2
ParIds == 1..3
ParStrings == {<<"9">>, <<"a">>}
ParEvents == {Update(i, s) : i \in ParIds, s \in ParStrings} \cup {Press(1)}
Policies == {"Both", "Either", "Left", "Right"}
ParInputs == {None, Some(7)}

\* the branches of a run: two Interacts not yet started, two Views of two
\* shares, or two other tasks
InteractPairs == {<<Interact_new(i), Interact_new(j)>> : i \in ParInputs, j \in ParInputs}
ViewPairs == {<<ViewTask(InnerView(1, 1, "blue")), ViewTask(InnerView(2, 2, "blue"))>>}
AnyPairs ==
    {<<AnyTask(1, l, 1), AnyTask(2, r, 2)>> :
        l \in {Ok(Stable(1)), TaskErr("Task")},
        r \in {Ok(Unstable(2)), TaskErr("Task")}}
ShareValues ==
    {[s \in ShareIds |-> IF s = 1 THEN l ELSE r] :
        l \in {Empty, Unstable(1), Stable(1)},
        r \in {Empty, Unstable(2), Stable(2)}}

\* what a branch's on_event may meet that the branch does not decide
Outcomes(t) ==
    CASE t.kind = "Interact" -> {"Sent", "Fail"}
      [] t.kind = "View" -> {"Sent"}
      [] OTHER -> AnyOutcomes

\* start of a branch: only an Interact has something to do
Task_start(t, g, sent) ==
    IF t.kind = "Interact" THEN Interact_start(t, g, sent)
    ELSE [task |-> t, gen |-> g, res |-> Ok(Feedback_new)]

\* the inputs the two branches were made with, and the on_event calls so far
ParHist(pair) ==
    [inputs |-> <<IF pair[1].kind = "Interact" THEN pair[1].input ELSE None,
                  IF pair[2].kind = "Interact" THEN pair[2].input ELSE None>>,
     calls |-> 0]

ParInit ==
    \E pair \in InteractPairs \cup ViewPairs \cup AnyPairs, policy \in Policies :
        /\ par = Parallel(pair[1], pair[2], policy)
        /\ IF pair[1].kind = "View"
           THEN \E values \in ShareValues : views = [list |-> <<>>, shares |-> values]
           ELSE views = ViewsIdle
        /\ hist = ParHist(pair)
        /\ gen = INVALID
        /\ fs = FromStrEditor_new
        /\ ch = ChoiceInit
        /\ vec = VecInit
        /\ opt = OptionIdle
        /\ op = "new"
        /\ ev = NoCall
        /\ fb = Ok(Feedback_new)
        /\ pre = par
        /\ subject = "Parallel"
        /\ RestInit

\* the two branches are started, the left one first
ParStart ==
    \E sl \in BOOLEAN, sr \in BOOLEAN :
        LET a == Task_start(par.left, gen, sl)
            b == Task_start(par.right, a.gen, sr)
        IN  /\ subject = "Parallel"
            /\ op = "new"
            /\ par' = [par EXCEPT !.left = a.task, !.right = b.task]
            /\ gen' = b.gen
            /\ fb' = IF ~a.res.ok THEN a.res ELSE IF ~b.res.ok THEN b.res
                     ELSE Ok(a.res.v \o b.res.v)
            /\ op' = IF a.res.ok /\ b.res.ok THEN "start" ELSE "failed"
            /\ ev' = [type |-> "Start"]
            /\ pre' = par
            /\ UNCHANGED <<fs, ch, vec, opt, views, hist, subject, task, sh>>

\* an error of on_event is fatal: no event follows it
ParOnEvent ==
    \E event \in ParEvents, ol \in Outcomes(par.left), or \in Outcomes(par.right) :
        LET r == Parallel_on_event(par, event, ol, or)
        IN  /\ subject = "Parallel"
            /\ op \notin {"new", "failed"}
            /\ hist.calls < MaxCalls
            /\ par' = r.par
            /\ fb' = r.res
            /\ op' = IF r.res.ok THEN "on_event" ELSE "failed"
            /\ ev' = event
            /\ pre' = par
            /\ hist' = [hist EXCEPT !.calls = @ + 1]
            /\ UNCHANGED <<gen, fs, ch, vec, opt, views, subject, task, sh>>

\* value consumes the task; the run goes on from the task as it was, which
\* is a run that asks for the value later
ParValue ==
    /\ subject = "Parallel"
    /\ op \notin {"new", "failed"}
    /\ fb' = Parallel_value(par, views.shares)
    /\ op' = "value"
    /\ ev' = NoCall
    /\ pre' = par
    /\ UNCHANGED <<gen, fs, ch, vec, opt, par, views, hist, subject, task, sh>>

ParShare ==
    /\ subject = "Parallel"
    /\ op \notin {"new", "failed"}
    /\ fb' = Ok(Parallel_share(par))
    /\ op' = "share"
    /\ ev' = NoCall
    /\ pre' = par
    /\ UNCHANGED <<gen, fs, ch, vec, opt, par, views, hist, subject, task, sh>>

ParNext == ParStart \/ ParOnEvent \/ ParValue \/ ParShare

SpecParallel == ParInit /\ [][ParNext]_vars

----------------------------------------------------------------------------
(* The View specification: viewers of the shares, written to and refreshed *)

MaxViews == 3
\* the identifiers of the views are drawn apart from those of the shares
ViewIdBase == 10
RefreshIds == ShareIds \cup {3}
WrittenValues == {Empty, Unstable(1), Stable(1)}

ViewInit ==
    /\ views = ViewsIdle
    /\ par = ParIdle
    /\ opt = OptionIdle
    /\ gen = INVALID
    /\ fs = FromStrEditor_new
    /\ ch = ChoiceInit
    /\ vec = VecInit
    /\ op = "new"
    /\ ev = NoCall
    /\ fb = <<>>
    /\ pre = views
    /\ hist = HistInit
    /\ subject = "View"
    /\ RestInit

ViewNew ==
    \E s \in ShareIds :
        /\ subject = "View"
        /\ Len(views.list) < MaxViews
        /\ views' = [views EXCEPT !.list =
                        Append(@, View_new_shared(s, ViewIdBase + Len(@) + 1))]
        /\ op' = "new_shared"
        /\ ev' = [type |-> "New", id |-> s]
        /\ fb' = <<>>
        /\ pre' = views
        /\ UNCHANGED <<gen, fs, ch, vec, opt, par, hist, subject, task, sh>>

ViewWrite ==
    \E s \in ShareIds, v \in WrittenValues :
        /\ subject = "View"
        /\ views' = [views EXCEPT !.shares = Share_write(@, s, v)]
        /\ op' = "write"
        /\ ev' = [type |-> "Write", id |-> s]
        /\ fb' = <<>>
        /\ pre' = views
        /\ UNCHANGED <<gen, fs, ch, vec, opt, par, hist, subject, task, sh>>

\* refresh(id) of every viewer, in the order of the list; fb holds the
\* feedback of each
ViewRefresh ==
    \E id \in RefreshIds :
        /\ subject = "View"
        /\ fb' = [i \in 1..Len(views.list) |->
                    View_refresh(views.list[i], id, views.shares)]
        /\ op' = "refresh"
        /\ ev' = [type |-> "Refresh", id |-> id]
        /\ pre' = views
        /\ UNCHANGED <<gen, fs, ch, vec, opt, par, views, hist, subject, task, sh>>

ViewNext == ViewNew \/ ViewWrite \/ ViewRefresh

SpecView == ViewInit /\ [][ViewNext]_vars

----------------------------------------------------------------------------
(* The Interact specification *)

IntIds == 0..2
IntStrings == {<<"9">>, <<"2", "5", "5">>, <<"a">>, <<"2", "5", "6">>}
IntEvents == {Update(i, s) : i \in IntIds, s \in IntStrings} \cup {Press(i) : i \in IntIds}

\* enter/update give the Interact an input, choose gives it none
IntInit ==
    /\ \E input \in {None, Some(7)} : task = Interact_new(input)
    /\ sh = ShareIdle
    /\ opt = OptionIdle
    /\ par = ParIdle
    /\ views = ViewsIdle
    /\ gen = INVALID
    /\ fs = FromStrEditor_new
    /\ ch = ChoiceInit
    /\ vec = VecInit
    /\ op = "new"
    /\ ev = NoCall
    /\ fb = NoFeedback
    /\ pre = task
    /\ hist = HistInit
    /\ subject = "Interact"

IntStart ==
    \E sent \in BOOLEAN :
        LET r == Interact_start(task, gen, sent)
        IN  /\ subject = "Interact"
            /\ op = "new"
            /\ task' = r.task
            /\ gen' = r.gen
            /\ fb' = [res |-> r.res, sendOk |-> sent]
            /\ op' = IF r.res.ok THEN "start" ELSE "failed"
            /\ ev' = [type |-> "Start"]
            /\ pre' = task
            /\ UNCHANGED <<fs, ch, vec, opt, par, views, sh, hist, subject>>

\* fb holds what on_event returned, the feedback that went out through the
\* context, and whether the send was let through
IntOnEvent ==
    \E event \in IntEvents, sent \in BOOLEAN :
        LET r == Interact_on_event(task, event, sent)
        IN  /\ subject = "Interact"
            /\ op \notin {"new", "failed"}
            /\ task' = r.task
            /\ fb' = [res |-> Interact_on_event_result(task, event, sent),
                      sent |-> IF r.res.ok THEN r.res.v ELSE Feedback_new,
                      sendOk |-> sent]
            /\ op' = IF r.res.ok THEN "on_event" ELSE "failed"
            /\ ev' = event
            /\ pre' = task
            /\ UNCHANGED <<gen, fs, ch, vec, opt, par, views, sh, hist, subject>>

\* finish consumes the task; the run goes on from the task as it was
IntFinish ==
    /\ subject = "Interact"
    /\ op \notin {"new", "failed"}
    /\ fb' = Interact_finish(task)
    /\ op' = "finish"
    /\ ev' = NoCall
    /\ pre' = task
    /\ UNCHANGED <<gen, fs, ch, vec, opt, par, views, task, sh, hist, subject>>

IntNext == IntStart \/ IntOnEvent \/ IntFinish

SpecInteract == IntInit /\ [][IntNext]_vars

----------------------------------------------------------------------------
(* The Share specification: one writer and the viewers of one share, each  *)
(* in a task tree of its own, interleaved step by step.  The k-th write    *)
(* stores the value k.                                                     *)

MaxWrites == 2
Viewers == {"a", "b"}
ReadKinds == {"value", "to_html"}

\* a viewer: where it is in its read, the number of writes that were
\* complete when it called, the word loaded first, and what the read returned
ViewerInit == [pc |-> "idle", at |-> 0, lo |-> 0, got |-> None]

ShInit ==
    /\ sh = [cell |-> Share_new(0),
             writer |-> "idle",
             done |-> 0,
             viewers |-> [r \in Viewers |-> ViewerInit]]
    /\ task = TaskIdle
    /\ opt = OptionIdle
    /\ par = ParIdle
    /\ views = ViewsIdle
    /\ gen = INVALID
    /\ fs = FromStrEditor_new
    /\ ch = ChoiceInit
    /\ vec = VecInit
    /\ op = "new"
    /\ ev = NoCall
    /\ fb = NoFeedback
    /\ pre = NoCall
    /\ hist = HistInit
    /\ subject = "Share"

\* the variables the steps on the share leave alone
ShFrame == UNCHANGED <<gen, fs, ch, vec, opt, par, views, task, fb, pre, hist, subject>>

\* the write path is granted the lock
ShWriteBegin ==
    /\ subject = "Share"
    /\ sh.writer = "idle"
    /\ sh.done < MaxWrites
    /\ Share_free(sh.cell)
    /\ sh' = [sh EXCEPT !.cell = Share_lock(@, "writer"), !.writer = "lo"]
    /\ op' = "write"
    /\ ev' = [type |-> "Write", value |-> sh.done + 1]
    /\ ShFrame

\* the first store of the write
ShWriteLo ==
    /\ subject = "Share"
    /\ sh.writer = "lo"
    /\ sh' = [sh EXCEPT !.cell.lo = sh.done + 1, !.writer = "hi"]
    /\ UNCHANGED <<op, ev>>
    /\ ShFrame

\* the second store; the write is complete and the lock is given up
ShWriteHi ==
    /\ subject = "Share"
    /\ sh.writer = "hi"
    /\ sh' = [sh EXCEPT !.cell = Share_unlock([@ EXCEPT !.hi = sh.done + 1]),
                        !.writer = "idle",
                        !.done = @ + 1]
    /\ UNCHANGED <<op, ev>>
    /\ ShFrame

\* a viewer calls value() (clone_value) or to_html() (read) on its share
ShReadCall ==
    \E r \in Viewers, kind \in ReadKinds :
        /\ subject = "Share"
        /\ sh.viewers[r].pc = "idle"
        /\ sh' = [sh EXCEPT !.viewers[r] =
                     [pc |-> "await", at |-> sh.done, lo |-> 0, got |-> None]]
        /\ op' = kind
        /\ ev' = [type |-> "Read", viewer |-> r]
        /\ ShFrame

\* the await of the viewer's read is over: it holds the lock
ShReadAcquire ==
    \E r \in Viewers :
        /\ subject = "Share"
        /\ sh.viewers[r].pc = "await"
        /\ Share_free(sh.cell)
        /\ sh' = [sh EXCEPT !.cell = Share_lock(@, r), !.viewers[r].pc = "lo"]
        /\ UNCHANGED <<op, ev>>
        /\ ShFrame

\* the first load of the read
ShReadLo ==
    \E r \in Viewers :
        /\ subject = "Share"
        /\ sh.viewers[r].pc = "lo"
        /\ sh' = [sh EXCEPT !.viewers[r].lo = sh.cell.lo, !.viewers[r].pc = "hi"]
        /\ UNCHANGED <<op, ev>>
        /\ ShFrame

\* the second load; the read returns and the lock is given up
ShReadHi ==
    \E r \in Viewers :
        /\ subject = "Share"
        /\ sh.viewers[r].pc = "hi"
        /\ sh' = [sh EXCEPT !.cell = Share_unlock(@),
                            !.viewers[r].got = Some(<<sh.viewers[r].lo, sh.cell.hi>>),
                            !.viewers[r].pc = "idle"]
        /\ UNCHANGED <<op, ev>>
        /\ ShFrame

ShNext ==
    \/ ShWriteBegin \/ ShWriteLo \/ ShWriteHi
    \/ ShReadCall \/ ShReadAcquire \/ ShReadLo \/ ShReadHi

SpecShare == ShInit /\ [][ShNext]_vars

----------------------------------------------------------------------------
(* Claims about FromStrEditor and ChoiceEditor *)

\* the last call was on_event with an Update addressed to the editor
OwnUpdate == op = "on_event" /\ ev.type = "Update" /\ ev.id = pre.id

\* C1: an Update with the editor's id whose value parses makes read() the
\* parsed value and returns exactly Valid{id}; one whose value does not parse
\* makes read() fail with Invalid and returns exactly Invalid{id}.  The
\* parse is pinned on the strings of the events: "9", "+9" and "007" are 9,
\* 9 and 7, "255" is u8::MAX, and "", "+", "-9", "a", "9a", "256" do not parse.
C1_UpdateSetsValidity ==
    (subject = "FromStr" /\ OwnUpdate) =>
        /\ ParseU8(ev.value) >= 0 =>
              /\ FromStrEditor_read(fs) = Ok(ParseU8(ev.value))
              /\ fb = FbValid(pre.id)
        /\ ParseU8(ev.value) < 0 =>
              /\ FromStrEditor_read(fs) = Err
              /\ fb = FbInvalid(pre.id)
        /\ ev.value = <<"9">> => FromStrEditor_read(fs) = Ok(9)
        /\ ev.value = <<"+", "9">> => FromStrEditor_read(fs) = Ok(9)
        /\ ev.value = <<"0", "0", "7">> => FromStrEditor_read(fs) = Ok(7)
        /\ ev.value = <<"2", "5", "5">> => FromStrEditor_read(fs) = Ok(255)
        /\ ev.value \in {<<>>, <<"+">>, <<"-", "9">>, <<"a">>, <<"9", "a">>,
                         <<"2", "5", "6">>} => fb = FbInvalid(pre.id)
        /\ fs.id = pre.id

\* C1 witness: an allocated editor holding no value took a parsable Update
C1_Witness ==
    /\ subject = "FromStr" /\ OwnUpdate
    /\ pre.id # INVALID
    /\ ~pre.value.ok
    /\ fs.value = Ok(255)
    /\ fb = FbValid(fs.id)

C3_WriteReadRoundTrip ==
    (subject = "FromStr" /\ op = "write") =>
        /\ FromStrEditor_read(fs) = Ok(ev.value)
        /\ fs.id = pre.id

\* C3 witness: write on an editor whose state was invalid
C3_Witness ==
    /\ subject = "FromStr" /\ op = "write"
    /\ ~pre.value.ok
    /\ pre.id # INVALID
    /\ FromStrEditor_read(fs) = Ok(7)

\* the last call was on_event with an event the editor does not own
ForeignEvent == op = "on_event" /\ (ev.type = "Press" \/ ev.id # pre.id)

\* C4: an event whose id differs from the editor's, and any Press event,
\* returns no feedback and leaves the editor (FromStrEditor: id and value,
\* ChoiceEditor: id, options and selection) unchanged
C4_ForeignEventIgnored ==
    ForeignEvent =>
        /\ fb = NoFeedback
        /\ subject = "FromStr" => fs = pre
        /\ subject = "Choice" => ch = pre

\* C4 witness: a parsable Update for another id reached a ChoiceEditor with
\* a selection
C4_Witness ==
    /\ subject = "Choice" /\ ForeignEvent
    /\ ev.type = "Update" /\ ev.value = <<"1">>
    /\ pre.id # INVALID
    /\ pre.choice = Some(0)
    /\ ch = pre

\* C5: read() fails with Invalid while nothing is selected; after an Update
\* addressed to the editor whose value parses to an index within the options
\* it returns the value of the option at that index; whenever the stored
\* index is out of range it fails with Invalid
C5_ChoiceRead ==
    subject = "Choice" =>
        /\ ~ch.choice.some => ChoiceEditor_read(ch) = Err
        /\ (OwnUpdate /\ ParseUsize(ev.value) >= 0
                /\ ParseUsize(ev.value) < Len(ch.options)) =>
              ChoiceEditor_read(ch) = Ok(10 * (ParseUsize(ev.value) + 1))
        /\ (OwnUpdate /\ ev.value = <<"2">> /\ Len(ch.options) = 3) =>
              ChoiceEditor_read(ch) = Ok(30)
        /\ (ch.choice.some /\ ch.choice.v >= Len(ch.options)) =>
              ChoiceEditor_read(ch) = Err
        /\ op = "new" => ChoiceEditor_read(ch) = Err

\* C5 witness: Update "2" selected index 2 of 3 options
C5_Witness ==
    /\ subject = "Choice" /\ OwnUpdate
    /\ pre.id # INVALID
    /\ ~pre.choice.some
    /\ ev.value = <<"2">>
    /\ Len(ch.options) = 3
    /\ ChoiceEditor_read(ch) = Ok(30)

----------------------------------------------------------------------------
(* Claims about VecEditor *)

Distinct(s) == \A j, k \in 1..Len(s) : j # k => s[j] # s[k]

RowIds(v) == [j \in 1..Len(v.choices) |-> v.choices[j].id]

\* C6: started with n items and after k add presses and no removal there are
\* n + k child editors and n + k rows, the rows' identifiers are pairwise
\* distinct, and each add press returned exactly one Append targeting the
\* group identifier (and carrying the markup of the new row)
C6_AddGrows ==
    (subject = "Vec" /\ hist.started /\ hist.removes = 0) =>
        /\ Len(vec.editors) = hist.n + hist.adds
        /\ Len(vec.choices) = hist.n + hist.adds
        /\ Distinct(RowIds(vec))
        /\ (op = "on_event" /\ IsAddPress(pre, ev)) =>
              /\ fb.type = "Append"
              /\ fb.id = vec.group_id
              /\ fb.id = pre.group_id
              /\ fb.html = Row_as_html(vec.choices[Len(vec.choices)],
                                       vec.editors[Len(vec.editors)])
              /\ Len(vec.editors) = Len(pre.editors) + 1

\* C6 witness: one item at start and two add presses, no removal
C6_Witness ==
    /\ subject = "Vec" /\ hist.started
    /\ hist.n = 1 /\ hist.adds = 2 /\ hist.removes = 0
    /\ op = "on_event" /\ IsAddPress(pre, ev)
    /\ Len(vec.choices) = 3
    /\ fb.type = "Append"

\* C7: a press on the remove trigger of row i returns exactly one Remove,
\* whose id is row i's container identifier, leaves one child fewer, and the
\* rows that survive are the rows before the press without row i, in the same
\* order and with the same container and remove-trigger identifiers
C7_RemoveRow ==
    (subject = "Vec" /\ op = "on_event" /\ IsRemovePress(pre, ev)) =>
        \E i \in 1..Len(pre.choices) :
            /\ pre.choices[i].sub_id = ev.id
            /\ fb = FbRemove(pre.choices[i].id)
            /\ Len(vec.editors) = Len(pre.editors) - 1
            /\ Len(vec.choices) = Len(pre.choices) - 1
            /\ \A j \in 1..Len(vec.choices) :
                  vec.choices[j] = pre.choices[IF j < i THEN j ELSE j + 1]
            /\ vec.group_id = pre.group_id
            /\ vec.add_id = pre.add_id

\* C7 witness: the middle row of three was removed
C7_Witness ==
    /\ subject = "Vec" /\ op = "on_event" /\ IsRemovePress(pre, ev)
    /\ Len(pre.choices) = 3
    /\ pre.choices[2].sub_id = ev.id
    /\ fb = FbRemove(pre.choices[2].id)
    /\ vec.choices = <<pre.choices[1], pre.choices[3]>>

\* C8: in every state reached by start, add presses, remove presses and
\* routed events there are as many rows as child editors, the row at position
\* j is the row created together with the child editor at position j, and no
\* call panics on a row table out of step with the editors; a remove of row i
\* removes the child editor at position i
C8_RowsPairedWithEditors ==
    subject = "Vec" =>
        /\ op # "panic"
        /\ Len(vec.choices) = Len(vec.editors)
        /\ \A j \in 1..Len(vec.choices) :
              <<vec.choices[j].id, vec.editors[j].id>> \in hist.pairs
        /\ (op = "on_event" /\ IsRemovePress(pre, ev)) =>
              \A j \in 1..Len(vec.editors) :
                  vec.editors[j] =
                      pre.editors[IF j <= RowPosition(pre.choices, ev.id)
                                  THEN j ELSE j + 1]

\* C8 witness: the first of several rows was removed after an add press and
\* an Update routed to a child
C8_Witness ==
    /\ subject = "Vec" /\ op = "on_event" /\ IsRemovePress(pre, ev)
    /\ hist.adds >= 1
    /\ Len(pre.choices) = 3
    /\ pre.choices[1].sub_id = ev.id
    /\ pre.editors[2].value = Ok(9)
    /\ Len(vec.editors) = 2
    /\ vec.editors[1].value = Ok(9)

\* C9: after start, the group id, the add id, every row's container id,
\* every row's remove-trigger id and every child editor's id are pairwise
\* distinct (and none is Id::INVALID), and no identifier of a removed row is
\* held by a row again
C9_IdsDistinct ==
    (subject = "Vec" /\ hist.started) =>
        /\ Cardinality(VecLiveIds(vec)) = 2 + 2 * Len(vec.choices) + Len(vec.editors)
        /\ INVALID \notin VecLiveIds(vec)
        /\ VecLiveIds(vec) \cap hist.released = {}

\* C9 witness: a row was added after a row was removed
C9_Witness ==
    /\ subject = "Vec" /\ op = "on_event" /\ IsAddPress(pre, ev)
    /\ hist.removes >= 1
    /\ hist.released # {}
    /\ Len(vec.choices) >= 2

\* C10: once a row is removed, an event addressed to its remove trigger or
\* to its child editor (or to its container) returns no feedback and changes
\* nothing of the list editor
C10_RemovedRowIgnored ==
    (subject = "Vec" /\ op = "on_event" /\ ev.id \in hist.releasedBefore) =>
        /\ fb = NoFeedback
        /\ vec = pre

\* C10 witness: a parsable Update addressed to the child editor of a removed
\* row, while other rows, one of them added since, are live
C10_Witness ==
    /\ subject = "Vec" /\ op = "on_event"
    /\ ev.type = "Update" /\ ev.value = <<"9">>
    /\ ev.id \in hist.releasedBefore
    /\ \E p \in hist.pairs : p[2] = ev.id
    /\ hist.adds >= 1
    /\ Len(vec.editors) >= 2
    /\ fb = NoFeedback

\* C11: rendering an editor that was rendered before allocates no new
\* identifier: after component() on an editor that already holds an
\* identifier, the editor holds the same identifier, so an event addressed
\* to the earlier identifier is still the editor's own
C11_Original ==
    (subject = "FromStr" /\ op = "component" /\ pre.id # INVALID) =>
        fs.id = pre.id

\* C12: a press on the add element while disabled enables the editor and
\* returns one Replace of the add element by the row; a press on the row's
\* remove trigger while enabled disables it and returns one Replace of the
\* row's container by the add element; a press on the add element while
\* enabled or on the remove trigger while disabled leaves the flag as it was
C12_OptionToggle ==
    (subject = "Option" /\ op = "on_event" /\ ev.type = "Press") =>
        /\ (ev.id = pre.add_id /\ ~pre.enabled) =>
              /\ opt.enabled
              /\ fb = FbReplace(pre.add_id, Row_as_html(pre.row, pre.editor))
        /\ (ev.id = pre.row.sub_id /\ pre.enabled) =>
              /\ ~opt.enabled
              /\ fb = FbReplace(pre.row.id, Row_add_button(pre.add_id))
        /\ (ev.id = pre.add_id /\ pre.enabled) => opt.enabled
        /\ (ev.id = pre.row.sub_id /\ ~pre.enabled) => ~opt.enabled

\* C12 witness: the add element is pressed while the editor, disabled again
\* by its remove trigger after it was started enabled, is disabled
C12_Witness ==
    /\ subject = "Option" /\ op = "on_event"
    /\ ev = Press(pre.add_id)
    /\ ~pre.enabled /\ opt.enabled
    /\ pre.editor.value = Ok(7)
    /\ fb.type = "Replace"

\* C13: finish yields Some(the child's finished value) when the editor is
\* enabled and None when it is disabled; when disabled it does not fail,
\* even if the child editor holds no valid value
C13_OptionFinish ==
    (subject = "Option" /\ op = "finish") =>
        /\ (pre.enabled /\ Editor_finish(pre.editor).ok) =>
              fb = Ok(Some(Editor_finish(pre.editor).v))
        /\ ~pre.enabled => fb = Ok(None)

\* C13 witness: finish on a disabled editor whose child holds no valid value
C13_Witness ==
    /\ subject = "Option" /\ op = "finish"
    /\ ~pre.enabled
    /\ ~pre.editor.value.ok
    /\ pre.editor.id # INVALID
    /\ fb = Ok(None)

\* the last call handed an event to the Parallel
ParHandled ==
    /\ subject = "Parallel"
    /\ op \in {"on_event", "failed"}
    /\ ev.type \in {"Update", "Press"}

\* the branches the last event was handed to, in order
Sides == [i \in 1..Len(par.log) |-> par.log[i].side]

\* value() of Parallel was asked and both branches gave a value
ValueAsked(policy) ==
    /\ subject = "Parallel" /\ op = "value" /\ pre.policy = policy
    /\ Task_value(pre.left, views.shares).ok
    /\ Task_value(pre.right, views.shares).ok

\* C14: the value of a Both is Stable((x, y)) iff the left value is
\* Stable(x) and the right Stable(y); it is Empty if either is Empty;
\* otherwise it is Unstable((x, y)) of the two carried values
C14_BothMerge ==
    ValueAsked("Both") =>
        LET a == Task_value(pre.left, views.shares).v
            b == Task_value(pre.right, views.shares).v
        IN  /\ fb.ok
            /\ (fb.v.tag = "Stable") <=> (a.tag = "Stable" /\ b.tag = "Stable")
            /\ (a.tag = "Stable" /\ b.tag = "Stable") => fb.v = Stable(<<a.v, b.v>>)
            /\ (a.tag = "Empty" \/ b.tag = "Empty") => fb.v = Empty
            /\ (/\ a.tag # "Empty" /\ b.tag # "Empty"
                /\ ~(a.tag = "Stable" /\ b.tag = "Stable")) =>
                  fb.v = Unstable(<<a.v, b.v>>)

\* C14 witness: a Both of a view of Stable(1) and a view of Unstable(2)
C14_Witness ==
    /\ ValueAsked("Both")
    /\ pre.left.kind = "View"
    /\ views.shares[1] = Stable(1) /\ views.shares[2] = Unstable(2)
    /\ fb = Ok(Unstable(<<1, 2>>))

\* C15: the value of an Either is the left value (tag and value) whenever
\* the left value is not Empty, and the right value when the left is Empty;
\* so Either of Unstable(x) and Stable(y) is Unstable(x)
C15_EitherLeftBiased ==
    ValueAsked("Either") =>
        LET a == Task_value(pre.left, views.shares).v
            b == Task_value(pre.right, views.shares).v
        IN  /\ fb.ok
            /\ a.tag # "Empty" => fb.v = a
            /\ a.tag = "Empty" => fb.v = b

\* C15 witness: an Either of a view of Unstable(1) and a view of Stable(2)
C15_Witness ==
    /\ ValueAsked("Either")
    /\ pre.left.kind = "View"
    /\ views.shares[1] = Unstable(1) /\ views.shares[2] = Stable(2)
    /\ fb = Ok(Unstable(1))

\* C16: every event passed to on_event of a Parallel, of any of the four
\* policies, is handed to both branches, the left first and then the right,
\* whatever the left branch returned
C16_Original ==
    ParHandled => Sides = <<"left", "right">>

\* C17: the feedback of a Parallel is the left branch's followed by the
\* right branch's; when the two cannot be merged on_event returns
\* TaskError::Feedback; a branch (an Interact or a View) that does not own
\* the event's identifier contributes the empty feedback
C17_FeedbackMerge ==
    (ParHandled /\ Len(par.log) = 2) =>
        LET a == par.log[1].res
            b == par.log[2].res
        IN  /\ (a.ok /\ b.ok) =>
                  IF Incompatible(a.v, b.v)
                  THEN fb = TaskErr("Feedback")
                  ELSE fb = Ok(a.v \o b.v)
            /\ (pre.left.kind = "Interact" /\ ev.id # pre.left.editor.id) =>
                  a = Ok(Feedback_new)
            /\ (pre.right.kind = "Interact" /\ ev.id # pre.right.editor.id) =>
                  b = Ok(Feedback_new)
            /\ pre.left.kind = "View" => a = Ok(Feedback_new)
            /\ pre.right.kind = "View" => b = Ok(Feedback_new)

\* C17 witness: both branches returned feedback, and the two were merged
C17_Witness ==
    /\ ParHandled /\ Len(par.log) = 2
    /\ par.log[1].res = Ok(Feedback_from(FbValid(1)))
    /\ par.log[2].res = Ok(Feedback_from(FbReplace(ROOT, 2)))
    /\ fb = Ok(<<FbValid(1), FbReplace(ROOT, 2)>>)

\* C18: the value and the share of a Left are those of the left branch and
\* those of a Right are those of the right branch, whatever the other
\* branch's value; the other branch is still handed every event
C18_Original ==
    /\ (subject = "Parallel" /\ op = "value" /\ pre.policy = "Left") =>
          fb = Task_value(pre.left, views.shares)
    /\ (subject = "Parallel" /\ op = "value" /\ pre.policy = "Right") =>
          fb = Task_value(pre.right, views.shares)
    /\ (subject = "Parallel" /\ op = "share" /\ pre.policy = "Left") =>
          fb = Ok(Task_share(pre.left))
    /\ (subject = "Parallel" /\ op = "share" /\ pre.policy = "Right") =>
          fb = Ok(Task_share(pre.right))
    /\ (ParHandled /\ pre.policy = "Left") =>
          \E i \in 1..Len(par.log) : par.log[i].side = "right"
    /\ (ParHandled /\ pre.policy = "Right") =>
          \E i \in 1..Len(par.log) : par.log[i].side = "left"

\* the run of the scenario: a Both of two Interacts made without input
BothOfEmpty ==
    /\ subject = "Parallel" /\ op = "on_event"
    /\ pre.policy = "Both"
    /\ pre.left.kind = "Interact" /\ pre.right.kind = "Interact"
    /\ hist.inputs = <<None, None>>
    /\ ev.type = "Update" /\ ParseU8(ev.value) >= 0

\* C19: for a Both of two value editors that both start Empty, after a
\* first Update valid for the left editor only the value of the Both is
\* still Empty; after a following valid Update for the right editor it is
\* Unstable((a, b)) of the two entered values
C19_BothScenario ==
    BothOfEmpty =>
        /\ (hist.calls = 1 /\ ev.id = pre.left.editor.id) =>
              Parallel_value(par, views.shares) = Ok(Empty)
        /\ (/\ hist.calls = 2 /\ ev.id = pre.right.editor.id
            /\ pre.left.editor.value.ok /\ ~pre.right.editor.value.ok) =>
              Parallel_value(par, views.shares) =
                  Ok(Unstable(<<pre.left.editor.value.v, ParseU8(ev.value)>>))

\* C19 witness: the second event of the scenario was handled
C19_Witness ==
    /\ BothOfEmpty
    /\ hist.calls = 2 /\ ev = Update(2, <<"9">>)
    /\ pre.left.editor.value = Ok(9) /\ ~pre.right.editor.value.ok
    /\ par.right.editor.value = Ok(9)
    /\ fb = Ok(Feedback_from(FbValid(2)))

\* C20: refresh(s) gives, for each viewer bound to the share of identity
\* s, exactly one Replace targeting the viewer's own identifier, and for
\* each viewer bound to another share the empty feedback; it changes no
\* viewer's identifier or binding
C20_RefreshPerViewer ==
    (subject = "View" /\ op = "refresh") =>
        /\ Len(fb) = Len(pre.list)
        /\ \A i \in 1..Len(pre.list) :
              IF pre.list[i].share = ev.id
              THEN /\ Len(fb[i]) = 1
                   /\ fb[i][1].type = "Replace"
                   /\ fb[i][1].id = pre.list[i].id
                   /\ fb[i][1].html.value = pre.shares[ev.id]
              ELSE fb[i] = Feedback_new
        /\ views = pre

\* C20 witness: two viewers bound to the refreshed share and one bound to
\* another, after the share was written
C20_Witness ==
    /\ subject = "View" /\ op = "refresh" /\ ev.id = 1
    /\ Len(views.list) = 3
    /\ views.list[1].share = 1 /\ views.list[2].share = 2 /\ views.list[3].share = 1
    /\ views.shares[1] = Unstable(1)
    /\ Len(fb[1]) = 1 /\ fb[2] = <<>> /\ Len(fb[3]) = 1

\* C22: finish of the list editor returns the outputs of all child editors
\* in row order when every child's finish succeeds, fails with the error of
\* the first failing child when some child's finish fails, and succeeds
\* with the empty list when there is no child
C22_VecFinish ==
    (subject = "Vec" /\ op = "finish") =>
        LET n == Len(pre.editors)
            bad == {j \in 1..n : ~pre.editors[j].value.ok}
        IN  /\ bad = {} =>
                  /\ fb.ok /\ Len(fb.v) = n
                  /\ \A j \in 1..n : fb.v[j] = pre.editors[j].value.v
            /\ bad # {} =>
                  /\ ~fb.ok
                  /\ \E j \in bad : /\ \A k \in bad : j <= k
                                    /\ fb = pre.editors[j].value
            /\ n = 0 => fb = Ok(<<>>)
            /\ vec = pre

\* C22 witness: finish fails on two children of which the second holds no
\* valid value, after the first was given one
C22_Witness ==
    /\ subject = "Vec" /\ op = "finish"
    /\ Len(pre.editors) = 2
    /\ pre.editors[1].value = Ok(9)
    /\ ~pre.editors[2].value.ok
    /\ fb = Err

\* the last event was neither a press on the add element nor a press on a
\* row's remove trigger
Routed ==
    /\ subject = "Vec" /\ op = "on_event"
    /\ ~IsAddPress(pre, ev) /\ ~IsRemovePress(pre, ev)

\* the children that return feedback on the event, by position
Claiming(editors, event) ==
    {j \in 1..Len(editors) :
        FromStrEditor_on_event(editors[j], event).fb # NoFeedback}

\* C24: an event that is neither a press on the add element nor a press on
\* a remove trigger goes to the first child editor, in row order, that
\* returns feedback: at most one child's state changes, the feedback
\* returned is that child's, and the row table is unchanged
C24_RoutedToFirstChild ==
    Routed =>
        LET claim == Claiming(pre.editors, ev)
        IN  /\ vec.choices = pre.choices
            /\ vec.group_id = pre.group_id /\ vec.add_id = pre.add_id
            /\ Len(vec.editors) = Len(pre.editors)
            /\ Cardinality({j \in 1..Len(pre.editors) :
                               vec.editors[j] # pre.editors[j]}) <= 1
            /\ claim = {} => (fb = NoFeedback /\ vec = pre)
            /\ claim # {} =>
                  LET j == First(claim)
                      r == FromStrEditor_on_event(pre.editors[j], ev)
                  IN  /\ fb = r.fb
                      /\ vec.editors[j] = r.editor
                      /\ \A k \in 1..Len(pre.editors) :
                            k # j => vec.editors[k] = pre.editors[k]

\* C24 witness: an Update that parses, addressed to the second of two
\* children, changed that child alone
C24_Witness ==
    /\ Routed
    /\ Len(pre.editors) = 2
    /\ ev = Update(pre.editors[2].id, <<"9">>)
    /\ pre.editors[2].value # Ok(9)
    /\ vec.editors[2].value = Ok(9)
    /\ vec.editors[1] = pre.editors[1]
    /\ fb = FbValid(ev.id)

\* C23: share() of an Either returns the left branch's share, so a viewer
\* bound to the share of the Either is bound to the left branch's share
C23_Original ==
    (subject = "Parallel" /\ op = "share" /\ pre.policy = "Either") =>
        fb = Ok(Task_share(pre.left))

\* C26: started with an input that is present the optional editor is
\* enabled and finish yields Some of it; started with an input that is
\* explicitly absent, or with no input at all, it is disabled and finish
\* yields None
C26_Original ==
    (subject = "Option" /\ op = "start") =>
        /\ (ev.value.some /\ ev.value.v.some) =>
              /\ opt.enabled
              /\ OptionEditor_finish(opt) = Ok(Some(ev.value.v.v))
        /\ (~ev.value.some \/ ~ev.value.v.some) =>
              /\ ~opt.enabled
              /\ OptionEditor_finish(opt) = Ok(None)

\* C27: every Remove of the list editor and every Replace of the optional
\* editor targets an identifier carried by the markup the client holds for
\* the editor, which is the editor's markup as of before the event (the
\* first render, brought up to date by each Append, Remove and Replace)
C27_Original ==
    /\ (subject = "Vec" /\ op = "on_event" /\ fb.type = "Remove") =>
          fb.id \in HtmlIds(VecEditor_as_html(pre))
    /\ (subject = "Option" /\ op = "on_event" /\ fb.type = "Replace") =>
          fb.id \in HtmlIds(OptionEditor_as_html(pre))

\* the last call handed an event to the Interact
IntHandled ==
    /\ subject = "Interact"
    /\ op \in {"on_event", "failed"}
    /\ ev.type \in {"Update", "Press"}

\* C25: after any event on_event reports Unstable(v) when the editor reads
\* Ok(v) and Empty when the read fails; finish reports Stable(v) or Empty by
\* the same rule; an editor's validation failure never makes on_event
\* return an error (only a failed send does); at most one feedback is sent
\* per event
C25_InteractValue ==
    /\ IntHandled =>
          /\ fb.sendOk =>
                fb.res = Ok(IF task.editor.value.ok
                            THEN Unstable(task.editor.value.v) ELSE Empty)
          /\ ~fb.res.ok => (~fb.sendOk /\ fb.res = TaskErr("Send"))
          /\ Len(fb.sent) <= 1
    /\ (subject = "Interact" /\ op = "finish") =>
          fb = IF pre.editor.value.ok
               THEN Stable(pre.editor.value.v) ELSE Empty

\* C25 witness: an Update that does not parse, addressed to the editor while
\* it held a value, was answered with Invalid and the value Empty
C25_Witness ==
    /\ IntHandled /\ op = "on_event"
    /\ ev = Update(pre.editor.id, <<"a">>)
    /\ pre.editor.value = Ok(9)
    /\ fb.sent = <<FbInvalid(ev.id)>>
    /\ fb.res = Ok(Empty)

\* C21: under every interleaving of a writer and the viewers of a share,
\* each read returns a whole value, that of before or of after a write and
\* never a torn one, and a read called after a write was complete returns
\* the value of that write or of a later one
C21_AtomicWrite ==
    subject = "Share" =>
        \A r \in Viewers :
            sh.viewers[r].got.some =>
                LET got == sh.viewers[r].got.v
                IN  /\ got[1] = got[2]
                    /\ sh.viewers[r].at <= got[1]
                    /\ got[1] <= sh.done + (IF sh.writer = "idle" THEN 0 ELSE 1)

\* C21 witness: a viewer that called while the second write was under way
\* got the value of that write, and the other viewer, which read before any
\* write, is waiting to read again
C21_Witness ==
    /\ subject = "Share"
    /\ sh.viewers["a"].at = 1 /\ sh.viewers["a"].got = Some(<<2, 2>>)
    /\ sh.viewers["b"].pc = "await"
    /\ sh.done = 2

====
